---- MODULE Spec2Model ----
(***************************************************************************)
(* Model of scripts/app.py: the stream selector (pick_target_stream), the  *)
(* link extractor (extract_funhalf_from_text, find_funhalf_url_for_video), *)
(* the feed store (ensure_feed_exists, read_existing_guids,                *)
(* append_item_to_feed) and the orchestrator (main).                       *)
(*                                                                         *)
(* A text is the sequence of its characters, each a one-character string;  *)
(* a character outside ASCII is written by its code point, "U+2013" for    *)
(* the en dash.  A text rendered from a date or a time (str(date),         *)
(* strftime) is one string.  An optional value is a sequence of length at  *)
(* most one: None is << >>, a value x is << x >>.                          *)
(***************************************************************************)
EXTENDS Integers, Sequences, FiniteSets, TLC

VARIABLES disk, clock, last, sel, ext, run, procs

vars == <<disk, clock, last, sel, ext, run, procs>>

None == << >>
Some(x) == << x >>

(***************************************************************************)
(* Bounds of the model.                                                    *)
(***************************************************************************)
MaxItems == 3
MaxClock == 1
MaxAppends == 2
MaxEntries == 2
MaxComments == 2
MaxRunEntries == 2

(***************************************************************************)
(* Strings.                                                                *)
(***************************************************************************)
\* The characters str.strip() removes and \s matches: those for which
\* str.isspace() is true.
WS ==
    {" ", "\t", "\n", "\r", "\f", "U+000B", "U+001C", "U+001D", "U+001E", "U+001F",
     "U+0085", "U+00A0", "U+1680", "U+2000", "U+2001", "U+2002", "U+2003", "U+2004",
     "U+2005", "U+2006", "U+2007", "U+2008", "U+2009", "U+200A", "U+2028", "U+2029",
     "U+202F", "U+205F", "U+3000"}

RECURSIVE lstrip(_)
lstrip(s) == IF s # << >> /\ Head(s) \in WS THEN lstrip(Tail(s)) ELSE s

RECURSIVE rstrip(_)
rstrip(s) ==
    IF s # << >> /\ s[Len(s)] \in WS THEN rstrip(SubSeq(s, 1, Len(s) - 1)) ELSE s

\* str.strip()
strip(s) == rstrip(lstrip(s))

UpperCase == <<"A","B","C","D","E","F","G","H","I","J","K","L","M",
               "N","O","P","Q","R","S","T","U","V","W","X","Y","Z">>
LowerCase == <<"a","b","c","d","e","f","g","h","i","j","k","l","m",
               "n","o","p","q","r","s","t","u","v","w","x","y","z">>

\* The cased characters outside ASCII of the model's alphabet with what
\* str.lower() makes of them: E acute, I with dot above (two code points),
\* the Kelvin sign.
NON_ASCII_LOWER ==
    {<<"U+00C9", <<"U+00E9">> >>, <<"U+0130", <<"i", "U+0307">> >>, <<"U+212A", <<"k">> >>}

\* str.lower() of one character: a text of one or two characters
lower_char(c) ==
    IF \E i \in 1..Len(UpperCase) : UpperCase[i] = c
    THEN <<LowerCase[CHOOSE i \in 1..Len(UpperCase) : UpperCase[i] = c]>>
    ELSE IF \E p \in NON_ASCII_LOWER : p[1] = c
    THEN (CHOOSE p \in NON_ASCII_LOWER : p[1] = c)[2]
    ELSE <<c>>

\* str.lower()
RECURSIVE lower(_)
lower(s) == IF s = << >> THEN << >> ELSE lower_char(Head(s)) \o lower(Tail(s))

\* sub in s
contains(s, sub) ==
    \E i \in 1..(Len(s) - Len(sub) + 1) : SubSeq(s, i, i + Len(sub) - 1) = sub

startswith(s, prefix) == Len(s) >= Len(prefix) /\ SubSeq(s, 1, Len(prefix)) = prefix

(***************************************************************************)
(* Dates and times.  A day is its number counted from Monday 1 January     *)
(* 2024 (day 0); a time is a day with hour, minute and second on the       *)
(* America/Detroit wall clock, and the fold of datetime: 1 for the second  *)
(* of the two times a wall clock reading stands for when the clocks are    *)
(* set back, 0 otherwise.                                                  *)
(***************************************************************************)
DayNames == <<"Mon", "Tue", "Wed", "Thu", "Fri", "Sat", "Sun">>
MonthNames == <<"Jan", "Feb", "Mar", "Apr", "May", "Jun", "Jul", "Aug", "Sep", "Oct", "Nov", "Dec">>
MonthLengths == <<31, 29, 31, 30, 31, 30, 31, 31, 30, 31, 30, 31>>

\* datetime.weekday(): Monday is 0
weekday(day) == day % 7

\* month and day of the month of the n-th day (from 0) counted from the
\* first of month m
RECURSIVE month_day(_, _)
month_day(n, m) ==
    IF n < MonthLengths[m] THEN [month |-> m, day |-> n + 1]
    ELSE month_day(n - MonthLengths[m], m + 1)

pad2(n) == IF n < 10 THEN "0" \o ToString(n) ELSE ToString(n)

\* str(dt.date()), as the f-strings of main render it
iso_date(day) ==
    LET d == month_day(day, 1) IN "2024-" \o pad2(d.month) \o "-" \o pad2(d.day)

\* America/Detroit in 2024: daylight time from 10 March 02:00 (day 69) to
\* 3 November 02:00 (day 307).
DST_START == 69
DST_END == 307

\* %Z of a time of ZoneInfo("America/Detroit").  The hour from 02:00 of the
\* day the clocks go forward is on no clock and the hour from 01:00 of the
\* day they go back is on the clock twice: the fold tells which side of the
\* change is meant.
tzname(dt) ==
    IF dt.day = DST_START /\ dt.hour = 2 THEN (IF dt.fold = 1 THEN "EDT" ELSE "EST")
    ELSE IF dt.day = DST_END /\ dt.hour = 1 THEN (IF dt.fold = 1 THEN "EST" ELSE "EDT")
    ELSE IF /\ (dt.day > DST_START \/ (dt.day = DST_START /\ dt.hour >= 3))
            /\ (dt.day < DST_END \/ (dt.day = DST_END /\ dt.hour < 1))
         THEN "EDT" ELSE "EST"

\* pub_dt_et.strftime('%a, %d %b %Y %H:%M:%S %Z')
strftime(dt) ==
    LET d == month_day(dt.day, 1)
    IN  DayNames[weekday(dt.day) + 1] \o ", " \o pad2(d.day) \o " " \o MonthNames[d.month]
            \o " 2024 " \o pad2(dt.hour) \o ":" \o pad2(dt.minute) \o ":" \o pad2(dt.second)
            \o " " \o tzname(dt)

(***************************************************************************)
(* Feed store.                                                             *)
(***************************************************************************)
FEED_TITLE == <<"M","a","j","o","r","i","t","y"," ","R","e","p","o","r","t"," ","U+2013"," ","F","u","n"," ","H","a","l","f">>
FEED_LINK == "https://www.youtube.com/@samSeder"
FEED_DESCRIPTION == "Daily Fun Half links from MR Live"
FEED_URL == "https://cheeseb1234.github.io/fhrss/funhalf.xml"

\* The channel element written by ensure_feed_exists, without its items.
ChannelMeta ==
    [title |-> FEED_TITLE, link |-> FEED_LINK, description |-> FEED_DESCRIPTION,
     atom_href |-> FEED_URL, atom_rel |-> "self", atom_type |-> "application/rss+xml"]

\* Content of the file at the feed path: no file, raw bytes that are not a
\* well-formed document (told apart by their number; none for an empty
\* file), or an RSS document.
Absent == [kind |-> "absent", meta |-> None, items |-> << >>, raw |-> 0]
Corrupt(n) == [kind |-> "corrupt", meta |-> None, items |-> << >>, raw |-> n]
Document(m, its) == [kind |-> "doc", meta |-> Some(m), items |-> its, raw |-> 0]
FreshDocument == Document(ChannelMeta, << >>)

\* Bytes of a text in UTF-8 with the escapes ElementTree writes.
TWO_BYTES == {"U+0085", "U+00A0", "U+00C9", "U+00E9", "U+0130", "U+0307"}
THREE_BYTES ==
    {"U+1680", "U+2000", "U+2001", "U+2002", "U+2003", "U+2004", "U+2005", "U+2006",
     "U+2007", "U+2008", "U+2009", "U+200A", "U+2010", "U+2011", "U+2012", "U+2013",
     "U+2014", "U+2015", "U+2019", "U+2028", "U+2029", "U+202F", "U+205F", "U+212A",
     "U+2212", "U+3000"}
char_bytes(c) ==
    IF c \in TWO_BYTES THEN 2
    ELSE IF c \in THREE_BYTES THEN 3
    ELSE IF c \in {"U+000B", "U+001C", "U+001D", "U+001E", "U+001F"} THEN 1
    ELSE IF c = "&" THEN 5
    ELSE IF c \in {"<", ">"} THEN 4
    ELSE Len(c)

RECURSIVE text_bytes(_)
text_bytes(s) == IF s = << >> THEN 0 ELSE char_bytes(Head(s)) + text_bytes(Tail(s))

\* <tag>text</tag>, or <tag /> for no text
element_bytes(tag, n) == IF n = 0 THEN Len(tag) + 4 ELSE 2 * Len(tag) + 5 + n

item_bytes(item) ==
    Len("<item></item>") + element_bytes("title", text_bytes(item.title))
        + element_bytes("link", text_bytes(item.link))
        + element_bytes("guid", text_bytes(item.guid))
        + element_bytes("pubDate", Len(item.pubDate))

RECURSIVE items_bytes(_)
items_bytes(items) ==
    IF items = << >> THEN 0 ELSE item_bytes(Head(items)) + items_bytes(Tail(items))

\* the bytes ensure_feed_exists writes
FRESH_BYTES == 377

file_bytes(f) == IF f.kind = "doc" THEN FRESH_BYTES + items_bytes(f.items) ELSE f.raw

\* Characters XML 1.0 does not allow: written as they are, they leave a
\* file that does not parse.
XML_ILLEGAL == {"\f", "U+000B", "U+001C", "U+001D", "U+001E", "U+001F"}

has_illegal(s) == \E i \in 1..Len(s) : s[i] \in XML_ILLEGAL

\* A text as the parser hands it back: a carriage return, with the line
\* feed after it if any, is read as a line feed.
RECURSIVE xml_text(_)
xml_text(s) ==
    IF s = << >> THEN << >>
    ELSE IF Head(s) = "\r"
    THEN <<"\n">> \o xml_text(IF Len(s) >= 2 /\ s[2] = "\n" THEN Tail(Tail(s)) ELSE Tail(s))
    ELSE <<Head(s)>> \o xml_text(Tail(s))

parsed_item(item) ==
    [title |-> xml_text(item.title), link |-> xml_text(item.link),
     guid |-> xml_text(item.guid), pubDate |-> item.pubDate]

\* ET.parse(path) of a well-formed document
parse_tree(f) == [f EXCEPT !.items = [i \in 1..Len(f.items) |-> parsed_item(f.items[i])]]

\* the file content tree.write produces
serialize(tree) ==
    IF \E i \in 1..Len(tree.items) :
           has_illegal(tree.items[i].title) \/ has_illegal(tree.items[i].link)
               \/ has_illegal(tree.items[i].guid)
    THEN Corrupt(file_bytes(tree))
    ELSE tree

\* The backup path f"{path}.bak-{int(time.time())}" is identified by its
\* timestamp; shutil.copy2 overwrites a backup made in the same second.
copy_backup(backups, t, content) ==
    {b \in backups : b.ts # t} \cup {[ts |-> t, content |-> content]}

ensure_feed_exists(d) ==
    IF d.file.kind # "absent" THEN d ELSE [d EXCEPT !.file = FreshDocument]

\* (item.findtext('guid') or item.findtext('link') or '').strip()
item_guid(item) == strip(IF item.guid # << >> THEN item.guid ELSE item.link)

collect_guids(items) ==
    {g \in {item_guid(items[i]) : i \in 1..Len(items)} : g # << >>}

\* Result of a call: the disk afterwards, the value returned, whether an
\* exception left the function.
Returned(d, v) == [disk |-> d, ret |-> Some(v), raised |-> FALSE]
Raised(d) == [disk |-> d, ret |-> None, raised |-> TRUE]

\* read_existing_guids with the recovery's ensure_feed_exists(path) left out.
read_existing_guids_no_recreate(d, t) ==
    IF d.file.kind = "absent" THEN Returned(d, {})
    ELSE IF d.file.kind = "doc" THEN Returned(d, collect_guids(parse_tree(d.file).items))
    ELSE LET copied == [d EXCEPT !.backups = copy_backup(d.backups, t, d.file)]
         IN  Returned([copied EXCEPT !.file = Absent], {})

read_existing_guids(d, t) ==
    IF d.file.kind = "absent" THEN Returned(d, {})
    ELSE IF d.file.kind = "doc" THEN Returned(d, collect_guids(parse_tree(d.file).items))
    ELSE LET copied == [d EXCEPT !.backups = copy_backup(d.backups, t, d.file)]
             removed == [copied EXCEPT !.file = Absent]
         IN  Returned(ensure_feed_exists(removed), {})

new_item(title, link, pub_dt_et) ==
    [title |-> title, link |-> link, guid |-> link, pubDate |-> strftime(pub_dt_et)]

\* insert_item writing a channel that holds the new item only.
insert_item_alone(tree, item) == [tree EXCEPT !.items = <<item>>]

\* channel.insert(index of the first item, item), or channel.append(item)
insert_item(tree, item) == [tree EXCEPT !.items = <<item>> \o tree.items]

\* tree.write(path) by the only process using the path
write_tree(d, tree) == [d EXCEPT !.file = serialize(tree)]

append_item_to_feed(d, t, title, link, pub_dt_et) ==
    LET d1 == ensure_feed_exists(d)
    IN  IF d1.file.kind = "corrupt" THEN Raised(d1)   \* ET.parse(path), line 157
        ELSE LET tree == parse_tree(d1.file)
                 r == read_existing_guids(d1, t)
                 existing == r.ret[1]
             IN  IF link \in existing THEN Returned(r.disk, FALSE)
                 ELSE Returned(write_tree(r.disk, insert_item(tree, new_item(title, link, pub_dt_et))), TRUE)

(***************************************************************************)
(* Inputs of the feed store calls.                                         *)
(***************************************************************************)
LinkA == <<"h","t","t","p","s",":","/","/","y","o","u","t","u",".","b","e","/","A","A","A","A","A","A">>
LinkB == <<"h","t","t","p","s",":","/","/","y","o","u","t","u","b","e",".","c","o","m","/","l","i","v","e","/","B","B","B","B","B","B">>
\* two links, the first again after a carriage return, and the empty link
FeedLinks == {LinkA, LinkB, <<"\r">> \o LinkA, << >>}
FeedTitles == { <<"F","u","n"," ","H","a","l","f">> }
\* pub_dt_et of a call made at clock t: a summer afternoon, then the second
\* 01:30 of the night the clocks go back
FeedTimes(t) ==
    IF t = 0 THEN [day |-> 185, hour |-> 13, minute |-> 0, second |-> 37, fold |-> 0]
    ELSE [day |-> DST_END, hour |-> 1, minute |-> 30, second |-> 0, fold |-> 1]
Garbage == {0, 2}

NoCall == [op |-> "none", title |-> << >>, link |-> << >>, pre |-> [file |-> Absent, backups |-> {}],
           at |-> 0, ret |-> None, raised |-> FALSE]
Call(op, title, link, r) ==
    [op |-> op, title |-> title, link |-> link, pre |-> disk, at |-> clock,
     ret |-> r.ret, raised |-> r.raised]

IdleSel == [state |-> "idle"]
IdleExt == [state |-> "idle"]
IdleRun == [state |-> "idle"]
IdleProcs == << >>

InitStore ==
    /\ disk = [file |-> Absent, backups |-> {}]
    /\ clock = 0
    /\ last = NoCall

Init ==
    /\ InitStore
    /\ sel = IdleSel /\ ext = IdleExt /\ run = IdleRun /\ procs = IdleProcs

EnsureExists ==
    /\ disk' = ensure_feed_exists(disk)
    /\ last' = Call("ensure", << >>, << >>, Returned(disk', {}))
    /\ UNCHANGED <<clock, sel, ext, run, procs>>

ReadIdentifiers ==
    LET r == read_existing_guids(disk, clock)
    IN  /\ disk' = r.disk
        /\ last' = Call("read", << >>, << >>, r)
        /\ UNCHANGED <<clock, sel, ext, run, procs>>

AppendItem ==
    \E title \in FeedTitles, link \in FeedLinks :
        LET r == append_item_to_feed(disk, clock, title, link, FeedTimes(clock))
        IN  /\ Len(disk.file.items) < MaxItems
            /\ disk' = r.disk
            /\ last' = Call("append", title, link, r)
            /\ UNCHANGED <<clock, sel, ext, run, procs>>

\* The environment damages the file (a truncated write, a bad merge).
CorruptFile ==
    \E n \in Garbage :
        /\ disk.file.kind # "absent"
        /\ disk' = [disk EXCEPT !.file = Corrupt(n)]
        /\ last' = NoCall
        /\ UNCHANGED <<clock, sel, ext, run, procs>>

\* time.time() advances.
Tick ==
    /\ clock < MaxClock
    /\ clock' = clock + 1
    /\ UNCHANGED <<disk, last, sel, ext, run, procs>>

Next == EnsureExists \/ ReadIdentifiers \/ AppendItem \/ CorruptFile \/ Tick

Spec == Init /\ [][Next]_vars

(***************************************************************************)
(* Feed store claims, checked under Spec.                                  *)
(***************************************************************************)
LastAppend == last.op = "append"
PreItems == last.pre.file.items
GuidsBefore == read_existing_guids(last.pre, last.at).ret[1]
GuidsAfter == read_existing_guids(disk, clock).ret[1]
HasBackupOf(content) == \E b \in disk.backups : b.content = content

\* C1: an append of link L issued when an item with link L is already in
\* the document returns false and leaves the document unchanged, and no two
\* items of the document ever share a link.
C1_IdempotentAppend ==
    /\ (/\ LastAppend
        /\ last.pre.file.kind = "doc"
        /\ \E i \in 1..Len(PreItems) : PreItems[i].link = last.link)
           => (last.ret = Some(FALSE) /\ disk.file = last.pre.file)
    /\ \A i, j \in 1..Len(disk.file.items) :
           i # j => disk.file.items[i].link # disk.file.items[j].link

\* C2: when append returns true, the identifier set afterwards is the set
\* before plus exactly the one new link, the new item is first, and the
\* earlier items and the channel metadata are as they were.
C2_SuccessfulAppend ==
    (LastAppend /\ last.ret = Some(TRUE)) =>
        /\ last.link \notin GuidsBefore
        /\ GuidsAfter = GuidsBefore \cup {last.link}
        /\ disk.file.items # << >>
        /\ Head(disk.file.items).link = last.link
        /\ Tail(disk.file.items) = PreItems
        /\ disk.file.meta = Some(ChannelMeta)

\* C3: readIdentifiers on an unparsable document returns the empty set
\* without raising, leaves a backup of the unreadable content at the
\* timestamped path, and leaves a fresh document with the channel metadata
\* and no items at the original path.
C3_CorruptionRecovery ==
    (last.op = "read" /\ last.pre.file.kind = "corrupt") =>
        /\ last.ret = Some({})
        /\ ~last.raised
        /\ [ts |-> last.at, content |-> last.pre.file] \in disk.backups
        /\ disk.file = FreshDocument

C3_Witness ==
    /\ last.op = "read"
    /\ last.pre.file.kind = "corrupt"
    /\ last.ret = Some({})
    /\ HasBackupOf(last.pre.file)

\* C4: an append issued while the document is unparsable recovers the
\* corruption (backup kept, fresh document created) and completes without
\* surfacing an error.
C4_AppendSurvivesCorruption ==
    (LastAppend /\ last.pre.file.kind = "corrupt") =>
        /\ ~last.raised
        /\ disk.file.kind = "doc"
        /\ HasBackupOf(last.pre.file)

(***************************************************************************)
(* Two runs executing append_item_to_feed on the same path.  Each file     *)
(* system call of the function is one step: os.path.exists, the open and   *)
(* the write of ensure_feed_exists, ET.parse, the calls of                 *)
(* read_existing_guids, the open and the write of tree.write.  Opening a   *)
(* file for writing empties it; the bytes arrive when the writer closes    *)
(* it, in one write, for a document of at most BUFFER_SIZE bytes.  A       *)
(* larger document reaches the file in pieces, their sizes depending on    *)
(* the block size of the file system; the writers here write documents     *)
(* that fit.  procs.ino numbers the file the path names, so that a writer  *)
(* whose file was removed meanwhile writes to a file no path names.        *)
(* procs.serial is the deployment: TRUE when the scheduler starts a run    *)
(* only after the other has ended, FALSE when runs may overlap.            *)
(***************************************************************************)
Writers == {1, 2}
LinkC == <<"h","t","t","p","s",":","/","/","w","w","w",".","y","o","u","t","u","b","e",".","c","o","m","/","l","i","v","e","/","C","C","C","C","C","C">>
WriterLinks == {LinkA, LinkB}
WriterTime == [day |-> 3, hour |-> 13, minute |-> 0, second |-> 0, fold |-> 0]
WriterTitle == <<"F","u","n"," ","H","a","l","f"," ","U+2013"," ">> \o <<iso_date(3)>>
OldItem ==
    new_item(<<"F","u","n"," ","H","a","l","f"," ","U+2013"," ">> \o <<iso_date(2)>>, LinkC,
             [day |-> 2, hour |-> 13, minute |-> 0, second |-> 0, fold |-> 0])

IdleWriter ==
    [pc |-> "idle", link |-> << >>, tree |-> Absent, existing |-> {}, ret |-> None,
     calls |-> 0, handle |-> 0, after |-> "parse"]

InitConcurrent ==
    /\ \E f \in {Absent, FreshDocument, Document(ChannelMeta, <<OldItem>>), Corrupt(2)} :
           disk = [file |-> f, backups |-> {}]
    /\ clock = 0
    /\ last = NoCall
    /\ \E m \in BOOLEAN :
           procs = [serial |-> m, appended |-> {}, ino |-> 0,
                    w |-> [p \in Writers |-> IdleWriter]]
    /\ sel = IdleSel /\ ext = IdleExt /\ run = IdleRun

Resting(w) == w.pc \in {"idle", "done", "raised"}
SetWriter(p, w) == [procs EXCEPT !.w[p] = w]

\* open(path, 'w'): the file the path names is emptied, or a new file is
\* made when the path names none
open_for_write(d) == [d EXCEPT !.file = Corrupt(0)]
opened_ino(d, ino) == IF d.file.kind = "absent" THEN ino + 1 ELSE ino

\* The bytes a text file object holds back before it writes (the chunk of
\* io.TextIOWrapper): tree.write passes a document of no more bytes to the
\* file in one write, when it closes the file.
BUFFER_SIZE == 8192
fits_buffer(content) == file_bytes(content) <= BUFFER_SIZE

\* The bytes of content written from offset 0 through a handle opened on
\* file number handle: lost when the path no longer names that file; what
\* another writer wrote beyond them in the meantime stays behind them.
store(d, ino, handle, content) ==
    IF d.file.kind = "absent" \/ handle # ino THEN d
    ELSE IF file_bytes(content) >= file_bytes(d.file) THEN [d EXCEPT !.file = content]
    ELSE [d EXCEPT !.file = Corrupt(file_bytes(d.file))]

\* lines 161-163
decide(w, existing) ==
    IF w.link \in existing
    THEN [w EXCEPT !.existing = existing, !.pc = "done", !.ret = Some(FALSE)]
    ELSE [w EXCEPT !.existing = existing, !.pc = "write_open"]

\* the calls made so far
RECURSIVE calls_of(_)
calls_of(ps) ==
    IF ps = {} THEN 0
    ELSE LET p == CHOOSE q \in ps : TRUE IN procs.w[p].calls + calls_of(ps \ {p})
TotalCalls == calls_of(Writers)

\* A run calls append_item_to_feed(path, title, link, now).
WriterCall(p) ==
    \E link \in WriterLinks :
        /\ Resting(procs.w[p])
        /\ TotalCalls < MaxAppends
        /\ procs.serial => \A q \in Writers : Resting(procs.w[q])
        /\ procs' = SetWriter(p, [IdleWriter EXCEPT !.pc = "exists", !.link = link,
                                                   !.calls = procs.w[p].calls + 1])
        /\ UNCHANGED <<disk, clock, last, sel, ext, run>>

\* lines 122-123, called from line 156 or from line 152
WriterExists(p) ==
    LET w == procs.w[p]
    IN  /\ w.pc = "exists"
        /\ procs' = SetWriter(p, IF disk.file.kind # "absent" THEN [w EXCEPT !.pc = w.after]
                                 ELSE [w EXCEPT !.pc = "create_open"])
        /\ UNCHANGED <<disk, clock, last, sel, ext, run>>

\* line 134: the file is opened
WriterCreateOpen(p) ==
    LET w == procs.w[p]
        ino == opened_ino(disk, procs.ino)
    IN  /\ w.pc = "create_open"
        /\ disk' = open_for_write(disk)
        /\ procs' = [SetWriter(p, [w EXCEPT !.pc = "create_flush", !.handle = ino])
                         EXCEPT !.ino = ino]
        /\ UNCHANGED <<clock, last, sel, ext, run>>

\* line 134: the document is written and the file closed
WriterCreateFlush(p) ==
    LET w == procs.w[p]
    IN  /\ w.pc = "create_flush"
        /\ disk' = store(disk, procs.ino, w.handle, FreshDocument)
        /\ procs' = SetWriter(p, [w EXCEPT !.pc = w.after])
        /\ UNCHANGED <<clock, last, sel, ext, run>>

\* lines 157-159: ParseError, or FileNotFoundError when the file is gone
WriterParse(p) ==
    LET w == procs.w[p]
    IN  /\ w.pc = "parse"
        /\ procs' = SetWriter(p, IF disk.file.kind = "doc"
                                 THEN [w EXCEPT !.pc = "read_exists", !.tree = parse_tree(disk.file)]
                                 ELSE [w EXCEPT !.pc = "raised"])
        /\ UNCHANGED <<disk, clock, last, sel, ext, run>>

\* lines 137-138
WriterReadExists(p) ==
    LET w == procs.w[p]
    IN  /\ w.pc = "read_exists"
        /\ procs' = SetWriter(p, IF disk.file.kind = "absent" THEN decide(w, {})
                                 ELSE [w EXCEPT !.pc = "read_parse"])
        /\ UNCHANGED <<disk, clock, last, sel, ext, run>>

\* lines 139-148: FileNotFoundError is not caught
WriterReadParse(p) ==
    LET w == procs.w[p]
    IN  /\ w.pc = "read_parse"
        /\ procs' = SetWriter(p, IF disk.file.kind = "doc"
                                 THEN decide(w, collect_guids(parse_tree(disk.file).items))
                                 ELSE IF disk.file.kind = "corrupt" THEN [w EXCEPT !.pc = "backup"]
                                 ELSE [w EXCEPT !.pc = "raised"])
        /\ UNCHANGED <<disk, clock, last, sel, ext, run>>

\* lines 149-150
WriterBackup(p) ==
    LET w == procs.w[p]
    IN  /\ w.pc = "backup"
        /\ IF disk.file.kind = "absent"
           THEN /\ procs' = SetWriter(p, [w EXCEPT !.pc = "raised"])
                /\ UNCHANGED disk
           ELSE /\ procs' = SetWriter(p, [w EXCEPT !.pc = "remove"])
                /\ disk' = [disk EXCEPT !.backups = copy_backup(disk.backups, clock, disk.file)]
        /\ UNCHANGED <<clock, last, sel, ext, run>>

\* lines 151-152; ensure_feed_exists and line 153 lead to line 161
WriterRemove(p) ==
    LET w == procs.w[p]
    IN  /\ w.pc = "remove"
        /\ IF disk.file.kind = "absent"
           THEN /\ procs' = SetWriter(p, [w EXCEPT !.pc = "raised"])
                /\ UNCHANGED disk
           ELSE /\ procs' = SetWriter(p, [w EXCEPT !.pc = "exists", !.after = "write_open"])
                /\ disk' = [disk EXCEPT !.file = Absent]
        /\ UNCHANGED <<clock, last, sel, ext, run>>

\* lines 164-174: the item is put in the tree and the file opened
WriterWriteOpen(p) ==
    LET w == procs.w[p]
        ino == opened_ino(disk, procs.ino)
    IN  /\ w.pc = "write_open"
        /\ fits_buffer(serialize(insert_item(w.tree, new_item(WriterTitle, w.link, WriterTime))))
        /\ disk' = open_for_write(disk)
        /\ procs' = [SetWriter(p, [w EXCEPT !.pc = "write_flush", !.handle = ino])
                         EXCEPT !.ino = ino]
        /\ UNCHANGED <<clock, last, sel, ext, run>>

\* lines 174-175: the tree is written, the file closed, True returned
WriterWriteFlush(p) ==
    LET w == procs.w[p]
        item == new_item(WriterTitle, w.link, WriterTime)
    IN  /\ w.pc = "write_flush"
        /\ fits_buffer(serialize(insert_item(w.tree, item)))
        /\ disk' = store(disk, procs.ino, w.handle, serialize(insert_item(w.tree, item)))
        /\ procs' = [SetWriter(p, [w EXCEPT !.pc = "done", !.ret = Some(TRUE)])
                         EXCEPT !.appended = @ \cup {w.link}]
        /\ UNCHANGED <<clock, last, sel, ext, run>>

NextConcurrent ==
    \E p \in Writers :
        \/ WriterCall(p) \/ WriterExists(p) \/ WriterCreateOpen(p) \/ WriterCreateFlush(p)
        \/ WriterParse(p) \/ WriterReadExists(p) \/ WriterReadParse(p) \/ WriterBackup(p)
        \/ WriterRemove(p) \/ WriterWriteOpen(p) \/ WriterWriteFlush(p)

SpecConcurrent == InitConcurrent /\ [][NextConcurrent]_vars

DocLinks == {disk.file.items[i].link : i \in 1..Len(disk.file.items)}
AllResting == \A p \in Writers : Resting(procs.w[p])

\* C10: with a single writer, run one at a time, no item whose append
\* returned true is dropped by a later append; when two runs overlap, a
\* state is reachable where both appends returned true and the document
\* holds only one of the two new items.
C10_SingleWriterKeepsItems ==
    (procs.serial /\ AllResting) =>
        /\ procs.appended \subseteq DocLinks
        /\ disk.file.kind = "doc" => Len(disk.file.items) >= Cardinality(procs.appended)

C10_LostUpdate ==
    /\ ~procs.serial
    /\ \A p \in Writers : procs.w[p].pc = "done" /\ procs.w[p].ret = Some(TRUE)
    /\ procs.w[1].link # procs.w[2].link
    /\ disk.file.kind = "doc"
    /\ \E p \in Writers : procs.w[p].link \notin DocLinks

(***************************************************************************)
(* Stream selector.                                                        *)
(***************************************************************************)
EXCLUDED_WORDS == { <<"c","l","i","p">>, <<"m","e","m","b","e","r","s">>, <<"p","r","e","m","i","e","r","e">> }

\* The title test of line 66 with the .lower() of line 65 left out.
title_excluded_case_sensitive(title) ==
    LET t == IF title = None THEN << >> ELSE title[1]
    IN  \E w \in EXCLUDED_WORDS : contains(t, w)

\* lines 65-66: title = (e.get('title') or '').lower(); any(s in title ...)
title_excluded(title) ==
    LET t == lower(IF title = None THEN << >> ELSE title[1])
    IN  \E w \in EXCLUDED_WORDS : contains(t, w)

\* lines 72-73: midnight UTC of the upload date, seen from America/Detroit
\* (UTC-5 or UTC-4), falls on the calendar day before.
et_date_of(up) == IF up = None THEN None ELSE Some(up[1] - 1)

\* x or y, for optional texts: the empty text counts as absent
or_else(x, y) == IF x # None /\ x[1] # << >> THEN x ELSE y

\* line 74, with the duration of line 68
candidate(e) ==
    [id |-> e.id, url |-> or_else(e.url, e.webpage_url), title |-> e.title,
     duration |-> IF e.duration = None THEN 0 ELSE e.duration[1],
     et_date |-> et_date_of(e.upload_date)]

RECURSIVE build_cands(_)
build_cands(entries) ==
    IF entries = << >> THEN << >>
    ELSE IF title_excluded(Head(entries).title) THEN build_cands(Tail(entries))
    ELSE <<candidate(Head(entries))>> \o build_cands(Tail(entries))

\* max(same, key=duration) keeping the last of the greatest.
RECURSIVE max_duration_last(_)
max_duration_last(s) ==
    IF Len(s) = 1 THEN s[1]
    ELSE LET m == max_duration_last(SubSeq(s, 1, Len(s) - 1))
         IN  IF s[Len(s)].duration >= m.duration THEN s[Len(s)] ELSE m

\* max(same, key=lambda c: c['duration'] or 0): the first of the greatest.
RECURSIVE max_duration(_)
max_duration(s) ==
    IF Len(s) = 1 THEN s[1]
    ELSE LET m == max_duration(SubSeq(s, 1, Len(s) - 1))
         IN  IF s[Len(s)].duration > m.duration THEN s[Len(s)] ELSE m

\* the sort key (c['et_date'], c['duration'] or 0), compared as tuples
key_less(a, b) ==
    \/ a.et_date[1] < b.et_date[1]
    \/ (a.et_date[1] = b.et_date[1] /\ a.duration < b.duration)

\* x placed in s, sorted by descending key, before the first element whose
\* key is not greater than x's: list.sort(reverse=True) is stable.
RECURSIVE insert_desc(_, _)
insert_desc(x, s) ==
    IF s = << >> THEN <<x>>
    ELSE IF key_less(x, Head(s)) THEN <<Head(s)>> \o insert_desc(x, Tail(s))
    ELSE <<x>> \o s

RECURSIVE sort_desc(_)
sort_desc(s) == IF s = << >> THEN << >> ELSE insert_desc(Head(s), sort_desc(Tail(s)))

\* pick_target_stream returning the longest candidate when a same-day one exists.
pick_target_stream_longest(entries, target_date) ==
    LET cands == build_cands(entries)
        IsSame(c) == c.et_date = Some(target_date)
        IsPrior(c) == c.et_date # None /\ c.et_date[1] <= target_date
        same == SelectSeq(cands, IsSame)
        prior == SelectSeq(cands, IsPrior)
    IN  IF same # << >> THEN Some(max_duration(cands))
        ELSE IF prior # << >> THEN Some(sort_desc(prior)[1])
        ELSE None

pick_target_stream(entries, target_date) ==
    LET cands == build_cands(entries)
        IsSame(c) == c.et_date = Some(target_date)
        IsPrior(c) == c.et_date # None /\ c.et_date[1] <= target_date
        same == SelectSeq(cands, IsSame)
        prior == SelectSeq(cands, IsPrior)
    IN  IF same # << >> THEN Some(max_duration(same))
        ELSE IF prior # << >> THEN Some(sort_desc(prior)[1])
        ELSE None

(***************************************************************************)
(* Inputs of the selector: each list of at most MaxEntries entries.  An    *)
(* upload date is the number of its day.                                   *)
(***************************************************************************)
TitleLive == <<"M","R"," ","L","i","v","e">>
TitleClip == <<"F","u","n"," ","H","a","l","f"," ","C","l","i","p">>
TitleMembers == <<"M","E","M","B","E","R","S"," ","o","n","l","y">>
TitlePremiere == <<"p","r","e","m","i","e","r","e">>
\* "CLİP", with the capital I with dot above, whose lower case is two
\* characters: it does not hold "clip"
TitleDotted == <<"C","L","U+0130","P">>
EntryTitles ==
    {Some(TitleLive), Some(TitleClip), Some(TitleMembers), Some(TitlePremiere), Some(TitleDotted)}
EntryDurations == {None, Some(1), Some(2)}
EntryUploads == {None, Some(3), Some(4), Some(5)}
TargetDays == {3, 4}

WATCH_URL == <<"h","t","t","p","s",":","/","/","w","w","w",".","y","o","u","t","u","b","e",".","c","o","m","/","w","a","t","c","h","?","v","=">>
LIVE_URL == <<"h","t","t","p","s",":","/","/","w","w","w",".","y","o","u","t","u","b","e",".","c","o","m","/","l","i","v","e","/">>
\* The provider gives the first of three entries a url, the second a
\* webpage_url only, the third neither; an id is its position in the list.
entry_url(i) == IF i % 3 = 1 THEN Some(WATCH_URL \o <<ToString(i)>>) ELSE None
entry_webpage_url(i) == IF i % 3 = 0 THEN None ELSE Some(LIVE_URL \o <<ToString(i)>>)
EntryShapes == [title : EntryTitles, duration : EntryDurations, upload_date : EntryUploads]
with_id(shape, i) ==
    [id |-> i, url |-> entry_url(i), webpage_url |-> entry_webpage_url(i), title |-> shape.title,
     duration |-> shape.duration, upload_date |-> shape.upload_date]

InitSelector ==
    /\ \E t \in TargetDays :
           sel = [state |-> "listing", entries |-> << >>, target |-> t, result |-> None]
    /\ disk = [file |-> Absent, backups |-> {}] /\ clock = 0 /\ last = NoCall
    /\ ext = IdleExt /\ run = IdleRun /\ procs = IdleProcs

\* The provider's listing yields one more entry.
ListEntry ==
    \E shape \in EntryShapes :
        /\ sel.state = "listing"
        /\ Len(sel.entries) < MaxEntries
        /\ sel' = [sel EXCEPT !.entries = Append(@, with_id(shape, Len(@) + 1))]
        /\ UNCHANGED <<disk, clock, last, ext, run, procs>>

SelectStream ==
    /\ sel.state = "listing"
    /\ sel' = [sel EXCEPT !.state = "done",
                          !.result = pick_target_stream(sel.entries, sel.target)]
    /\ UNCHANGED <<disk, clock, last, ext, run, procs>>

NextSelector == ListEntry \/ SelectStream

SpecSelector == InitSelector /\ [][NextSelector]_vars

(***************************************************************************)
(* Selector claims, checked under SpecSelector.                            *)
(***************************************************************************)
SelDone == sel.state = "done"
SelFound == sel.result # None
\* The entry titles of the inputs that contain "clip", "members" or
\* "premiere" in some letter case.
TitlesToExclude == {Some(TitleClip), Some(TitleMembers), Some(TitlePremiere)}
EntryIds == 1..Len(sel.entries)
Kept == {i \in EntryIds : sel.entries[i].title \notin TitlesToExclude}
EtDate(i) == et_date_of(sel.entries[i].upload_date)
Dur(i) == IF sel.entries[i].duration = None THEN 0 ELSE sel.entries[i].duration[1]
SameDay == {i \in Kept : EtDate(i) = Some(sel.target)}
PriorDay == {i \in Kept : EtDate(i) # None /\ EtDate(i)[1] <= sel.target}

\* C5 as stated: whenever some entry of the list has upload date equal to
\* the target date, the entry returned (if any) has that upload date.
C5_SameDayOfAnyEntry ==
    (SelDone /\ \E i \in EntryIds : EtDate(i) = Some(sel.target))
        => (SelFound => sel.result[1].et_date = Some(sel.target))

\* C5 as amended: whenever some entry that passes the title filter has
\* upload date equal to the target date, the entry returned (if any) has
\* that upload date.
C5_SameDayOfKeptEntry ==
    (SelDone /\ SameDay # {})
        => (SelFound => sel.result[1].et_date = Some(sel.target))

C5_Witness ==
    /\ SelDone /\ SelFound
    /\ \E i \in SameDay : \E j \in Kept \ SameDay :
           EtDate(j) # None /\ EtDate(j)[1] < sel.target /\ Dur(j) > Dur(i)

\* C6: an entry whose title contains "clip", "members" or "premiere" in
\* any letter case is never the result, in either branch.
C6_TitleExclusion ==
    (SelDone /\ SelFound) =>
        /\ sel.result[1].title \notin TitlesToExclude
        /\ sel.result[1].id \in Kept

C6_Witness ==
    /\ SelDone /\ SelFound
    /\ \E i \in EntryIds \ Kept :
           /\ EtDate(i) = Some(sel.target)
           /\ Dur(i) > sel.result[1].duration
           /\ sel.entries[i].title = Some(TitleClip)

\* C9: over the entries that pass the title filter, the result is the
\* first same-day entry of greatest duration (absent counted as 0) when one
\* exists; otherwise an entry of the latest known date on or before the
\* target and of greatest duration on that date; and none exactly when no
\* such entry has a known date on or before the target.
C9_SelectionRule ==
    SelDone =>
        IF SameDay # {}
        THEN LET best == CHOOSE i \in SameDay :
                             /\ \A j \in SameDay : Dur(j) <= Dur(i)
                             /\ \A j \in SameDay : Dur(j) = Dur(i) => i <= j
             IN  sel.result = Some(candidate(sel.entries[best]))
        ELSE IF PriorDay # {}
        THEN /\ SelFound
             /\ sel.result[1].id \in PriorDay
             /\ sel.result[1] = candidate(sel.entries[sel.result[1].id])
             /\ \A j \in PriorDay :
                    \/ EtDate(j)[1] < sel.result[1].et_date[1]
                    \/ (EtDate(j) = sel.result[1].et_date /\ Dur(j) <= sel.result[1].duration)
        ELSE sel.result = None

C9_Witness ==
    /\ SelDone /\ SelFound
    /\ \E i, j \in SameDay : i < j /\ Dur(i) = Dur(j) /\ sel.result[1].id = i

(***************************************************************************)
(* Link extractor.                                                         *)
(***************************************************************************)
\* the characters of [\-‐-―−]
DASHES == {"-", "U+2010", "U+2011", "U+2012", "U+2013", "U+2014", "U+2015", "U+2212"}

\* the characters of [A-Za-z0-9_-]
ID_CHARS ==
    {UpperCase[i] : i \in 1..Len(UpperCase)} \cup {LowerCase[i] : i \in 1..Len(LowerCase)}
        \cup {"0", "1", "2", "3", "4", "5", "6", "7", "8", "9", "_", "-"}

\* s[i:].startswith(prefix)
startswith_at(s, i, prefix) ==
    i + Len(prefix) - 1 <= Len(s) /\ SubSeq(s, i, i + Len(prefix) - 1) = prefix

\* \s*
RECURSIVE skip_ws(_, _)
skip_ws(s, i) == IF i <= Len(s) /\ s[i] \in WS THEN skip_ws(s, i + 1) ELSE i

\* a literal of lower-case letters matched at i under re.IGNORECASE
matches_ci(s, i, word) ==
    /\ i + Len(word) - 1 <= Len(s)
    /\ \A k \in 1..Len(word) : lower_char(s[i + k - 1]) = <<word[k]>>

\* FUN_HALF_PATTERN, fun\s*[dashes]?\s*half with re.IGNORECASE, matched at i
fun_half_at(s, i) ==
    LET a == skip_ws(s, i + 3)
        b == IF a <= Len(s) /\ s[a] \in DASHES THEN a + 1 ELSE a
        c == skip_ws(s, b)
    IN  matches_ci(s, i, <<"f","u","n">>) /\ matches_ci(s, c, <<"h","a","l","f">>)

\* FUN_HALF_PATTERN.search(line)
fun_half_search(s) == \E i \in 1..Len(s) : fun_half_at(s, i)

URL_HOSTS == { <<"y","o","u","t","u","b","e",".","c","o","m","/","l","i","v","e","/">>, <<"y","o","u","t","u",".","b","e","/">>, <<"y","o","u","t","u","b","e",".","c","o","m","/","w","a","t","c","h","?","v","=">> }

\* [A-Za-z0-9_-]* from i: the index after the run
RECURSIVE id_run_end(_, _)
id_run_end(s, i) == IF i <= Len(s) /\ s[i] \in ID_CHARS THEN id_run_end(s, i + 1) ELSE i

\* The parts of YOUTUBE_URL_PATTERN, each matched at the index where the
\* part before it ended: the index after the part, or 0 for no match.
\* https?://
scheme_end(s, i) ==
    IF startswith_at(s, i, <<"h","t","t","p","s",":","/","/">>) THEN i + 8
    ELSE IF startswith_at(s, i, <<"h","t","t","p",":","/","/">>) THEN i + 7
    ELSE 0
\* (?:www\.)?
www_end(s, a) == IF a # 0 /\ startswith_at(s, a, <<"w","w","w",".">>) THEN a + 4 ELSE a
\* (?:youtube\.com/live/|youtu\.be/|youtube\.com/watch\?v=)
host_end(s, b) ==
    IF b # 0 /\ \E h \in URL_HOSTS : startswith_at(s, b, h)
    THEN b + Len(CHOOSE h \in URL_HOSTS : startswith_at(s, b, h))
    ELSE 0
\* {6,} of the run from c to e
id_end(c, e) == IF c # 0 /\ e - c >= 6 THEN e ELSE 0
id_match_end(s, c) == id_end(c, id_run_end(s, c))

\* YOUTUBE_URL_PATTERN matched at i: the index after the match, or 0
url_match_end(s, i) == id_match_end(s, host_end(s, www_end(s, scheme_end(s, i))))

\* the least element of a set of numbers
least(S) == CHOOSE i \in S : \A j \in S : i <= j

least_or_zero(S) == IF S = {} THEN 0 ELSE least(S)

\* the index from i on of the leftmost match of YOUTUBE_URL_PATTERN, or 0
next_match(s, i) == least_or_zero({j \in i..Len(s) : s[j] = "h" /\ url_match_end(s, j) # 0})

\* YOUTUBE_URL_PATTERN.findall(s), searching from i: the leftmost match,
\* then the matches after its end
RECURSIVE findall(_, _)
RECURSIVE match_then_rest(_, _, _)
RECURSIVE from_match(_, _)
match_then_rest(s, j, e) == <<SubSeq(s, j, e - 1)>> \o findall(s, e)
from_match(s, j) == IF j = 0 THEN << >> ELSE match_then_rest(s, j, url_match_end(s, j))
findall(s, i) == from_match(s, next_match(s, i))

\* the index of the first character of s that is in chars, or Len(s) + 1
first_index(s, chars) == least({i \in 1..Len(s) : s[i] \in chars} \cup {Len(s) + 1})

\* s.split(sep)[0]
split_first(s, sep) == SubSeq(s, 1, first_index(s, {sep}) - 1)

\* what follows the first sep in s, or nothing
after_first(s, sep) == SubSeq(s, first_index(s, {sep}) + 1, Len(s))

\* unquote of a query name or value: "+" is a space (percent escapes are
\* left as they are)
plus_to_space(s) == [i \in 1..Len(s) |-> IF s[i] = "+" THEN " " ELSE s[i]]

\* parse_qs(query).get('v', [''])[0]: the first name=value pair, of those
\* separated by "&", with name v and a value that is not empty
RECURSIVE first_v(_)
value_of_v(name, value, rest) ==
    IF name = <<"v">> /\ value # << >> THEN value ELSE first_v(rest)
pair_value(pair, rest) ==
    value_of_v(plus_to_space(split_first(pair, "=")), plus_to_space(after_first(pair, "=")), rest)
first_v(query) ==
    IF query = << >> THEN << >>
    ELSE pair_value(split_first(query, "&"), after_first(query, "&"))

\* urlparse drops the tabs, carriage returns and line feeds of a URL
is_url_char(c) == c \notin {"\t", "\r", "\n"}

\* parse_qs(urlparse(url).query).get('v', [''])[0]
query_v(url) == first_v(after_first(split_first(SelectSeq(url, is_url_char), "#"), "?"))

\* lines 51-55, vid being what line 52 gives
live_url_or(url, vid, u) ==
    IF contains(url, <<"w","a","t","c","h">>) /\ contains(url, <<"v","=">>) /\ vid # << >>
    THEN <<"h","t","t","p","s",":","/","/","y","o","u","t","u","b","e",".","c","o","m","/","l","i","v","e","/">> \o vid
    ELSE u

clean_yt_url(url) == live_url_or(url, query_v(url), split_first(split_first(url, "?"), "&"))

ALLOWED_PREFIXES ==
    { <<"h","t","t","p","s",":","/","/","w","w","w",".","y","o","u","t","u","b","e",".","c","o","m","/","l","i","v","e","/">>, <<"h","t","t","p","s",":","/","/","y","o","u","t","u","b","e",".","c","o","m","/","l","i","v","e","/">>, <<"h","t","t","p","s",":","/","/","y","o","u","t","u",".","b","e","/">> }

\* lines 94-97 for one line: the first match whose cleaned form has an
\* allowed prefix
RECURSIVE first_allowed(_)
allowed_or(cu, rest) ==
    IF \E p \in ALLOWED_PREFIXES : startswith(cu, p) THEN Some(cu) ELSE first_allowed(rest)
first_allowed(urls) ==
    IF urls = << >> THEN None ELSE allowed_or(clean_yt_url(Head(urls)), Tail(urls))

\* the line boundaries of str.splitlines()
LINE_BREAKS == {"\n", "\r", "\f", "U+000B", "U+001C", "U+001D", "U+001E", "U+0085", "U+2028", "U+2029"}

\* str.splitlines(): a carriage return and the line feed after it are one
\* boundary
RECURSIVE splitlines(_)
\* the line of s that ends at the boundary at index n, then the lines after
line_then_rest(s, n) ==
    <<SubSeq(s, 1, n - 1)>>
        \o splitlines(SubSeq(s, IF n < Len(s) /\ s[n] = "\r" /\ s[n + 1] = "\n" THEN n + 2 ELSE n + 1,
                             Len(s)))
splitlines(s) == IF s = << >> THEN << >> ELSE line_then_rest(s, first_index(s, LINE_BREAKS))

\* x or y, for optional values
first_some(x, y) == IF x # None THEN x ELSE y

\* lines 93-97 for one stripped line
line_link(line) == IF fun_half_search(line) THEN first_allowed(findall(line, 1)) ELSE None

\* lines 91-97
RECURSIVE scan_lines(_)
scan_lines(lines) ==
    IF lines = << >> THEN None
    ELSE first_some(line_link(strip(Head(lines))), scan_lines(Tail(lines)))

\* text is None or a text
extract_funhalf_from_text(text) ==
    IF text = None \/ text[1] = << >> THEN None ELSE scan_lines(splitlines(text[1]))

COMMENT_LIMIT == 50

\* line 107: next((c for c in comments if c.get('pinned')), None)
first_pinned(comments) ==
    IF \E i \in 1..Len(comments) : comments[i].pinned
    THEN Some(comments[least({i \in 1..Len(comments) : comments[i].pinned})])
    ELSE None

\* lines 108-111
pinned_link(pinned) ==
    IF pinned # None THEN extract_funhalf_from_text(pinned[1].text) ELSE None

\* the first of a sequence of optional values that is a value
first_of(links) ==
    IF \E i \in 1..Len(links) : links[i] # None
    THEN links[least({i \in 1..Len(links) : links[i] # None})]
    ELSE None

\* lines 112-115: the link of the first comment that gives one
first_comment_link(comments) ==
    first_of([i \in 1..Len(comments) |-> extract_funhalf_from_text(comments[i].text)])

head_slice(s, n) == SubSeq(s, 1, IF Len(s) < n THEN Len(s) ELSE n)

\* find_funhalf_url_for_video scanning the comments before the pinned one.
find_funhalf_url_comments_first(info) ==
    first_some(extract_funhalf_from_text(info.description),
               first_some(first_comment_link(head_slice(info.comments, COMMENT_LIMIT)),
                          pinned_link(first_pinned(info.comments))))

\* find_funhalf_url_for_video on the metadata extract_info returned
find_funhalf_url_for_video(info) ==
    first_some(extract_funhalf_from_text(info.description),
               first_some(pinned_link(first_pinned(info.comments)),
                          first_comment_link(head_slice(info.comments, COMMENT_LIMIT))))

(***************************************************************************)
(* Inputs of the extractor: descriptions and comment texts.                *)
(***************************************************************************)
LinkOfA == <<"h","t","t","p","s",":","/","/","y","o","u","t","u","b","e",".","c","o","m","/","l","i","v","e","/","A","A","A","A","A","A">>
LinkOfB == <<"h","t","t","p","s",":","/","/","y","o","u","t","u",".","b","e","/","B","B","B","B","B","B">>
LinkOfE == <<"h","t","t","p","s",":","/","/","y","o","u","t","u",".","b","e","/","F","u","n","H","a","l","f","D","D","D">>

\* ''
TextBlank == Some(<< >>)
\* no phrase on the line of the URL
TextNoPhrase == Some(<<"w","a","t","c","h"," ","h","e","r","e",":"," ","h","t","t","p","s",":","/","/","y","o","u","t","u",".","b","e","/","D","D","D","D","D","D">>)
\* the phrase, and URLs that do not qualify: http, www.youtu.be, an id of
\* five characters
TextRejected ==
    Some(<<"F","U","N"," "," ","H","A","L","F"," ","h","t","t","p",":","/","/","y","o","u","t","u",".","b","e","/","E","E","E","E","E","E"," ","h","t","t","p","s",":","/","/","w","w","w",".","y","o","u","t","u",".","b","e","/","E","E","E","E","E","E"," ","h","t","t","p","s",":","/","/","y","o","u","t","u",".","b","e","/","a","b","c","d","e">>)
\* a URL on a line without the phrase, then a watch URL on a line with it
TextA ==
    Some(<<"l","i","v","e"," ","n","o","w"," ","h","t","t","p","s",":","/","/","y","o","u","t","u",".","b","e","/","D","D","D","D","D","D","\n"," "," ","c","h","e","c","k"," ","o","u","t"," ","t","h","e"," ","f","u","n","-","h","a","l","f",":"," ","h","t","t","p",":","/","/","w","w","w",".","y","o","u","t","u","b","e",".","c","o","m","/","w","a","t","c","h","?","v","=","A","A","A","A","A","A","&","t","=","3">>)
\* the phrase with an en dash, a URL that does not qualify, one that does
TextB == Some(<<"F","u","n"," ","U+2013"," ","H","a","l","f"," ","h","t","t","p",":","/","/","y","o","u","t","u",".","b","e","/","E","E","E","E","E","E"," ","h","t","t","p","s",":","/","/","y","o","u","t","u",".","b","e","/","B","B","B","B","B","B","?","s","i","=","1">>)
\* the phrase with a no-break space
TextC == Some(<<"f","u","n","U+00A0","h","a","l","f"," ","h","t","t","p","s",":","/","/","w","w","w",".","y","o","u","t","u","b","e",".","c","o","m","/","l","i","v","e","/","C","C","C","C","C","C">>)
\* the phrase inside the URL only
TextE == Some(<<"w","a","t","c","h"," ","h","e","r","e",":"," ","h","t","t","p","s",":","/","/","y","o","u","t","u",".","b","e","/","F","u","n","H","a","l","f","D","D","D">>)

Texts == {None, TextBlank, TextNoPhrase, TextRejected, TextA, TextB, TextC, TextE}
PadCounts == {0, COMMENT_LIMIT - 1, COMMENT_LIMIT}
padding(n) == [i \in 1..n |-> [text |-> TextBlank, pinned |-> FALSE]]

InitExtractor ==
    /\ \E d \in Texts, n \in PadCounts :
           ext = [state |-> "fetching", description |-> d, pad |-> n, comments |-> padding(n),
                  result |-> None]
    /\ disk = [file |-> Absent, backups |-> {}] /\ clock = 0 /\ last = NoCall
    /\ sel = IdleSel /\ run = IdleRun /\ procs = IdleProcs

\* The provider returns one more comment; at most one comment is pinned.
FetchComment ==
    \E t \in Texts, pin \in BOOLEAN :
        /\ ext.state = "fetching"
        /\ Len(ext.comments) - ext.pad < MaxComments
        /\ pin => \A i \in 1..Len(ext.comments) : ~ext.comments[i].pinned
        /\ ext' = [ext EXCEPT !.comments = Append(@, [text |-> t, pinned |-> pin])]
        /\ UNCHANGED <<disk, clock, last, sel, run, procs>>

\* lines 101-116 after extract_info returned the metadata
ExtractLink ==
    /\ ext.state = "fetching"
    /\ ext' = [ext EXCEPT !.state = "done",
                          !.result = find_funhalf_url_for_video(
                                         [description |-> ext.description, comments |-> ext.comments])]
    /\ UNCHANGED <<disk, clock, last, sel, run, procs>>

\* line 101: extract_info raises, and so does find_funhalf_url_for_video
ExtractRaises ==
    /\ ext.state = "fetching"
    /\ ext' = [ext EXCEPT !.state = "raised"]
    /\ UNCHANGED <<disk, clock, last, sel, run, procs>>

NextExtractor == FetchComment \/ ExtractLink \/ ExtractRaises

SpecExtractor == InitExtractor /\ [][NextExtractor]_vars

(***************************************************************************)
(* Extractor claim, checked under SpecExtractor.                           *)
(***************************************************************************)
\* The link each input text holds on a line with the phrase, read off the
\* texts above.
LinkIn(text) ==
    IF text = TextA THEN Some(LinkOfA)
    ELSE IF text = TextB THEN Some(LinkOfB)
    ELSE IF text = TextC THEN Some(LinkC)
    ELSE IF text = TextE THEN Some(LinkOfE)
    ELSE None

ExtDone == ext.state = "done"
CommentLink(i) == LinkIn(ext.comments[i].text)
Pinned == {i \in 1..Len(ext.comments) : ext.comments[i].pinned}
Scanned == {i \in 1..Len(ext.comments) : i <= COMMENT_LIMIT}
Yielding == {i \in Scanned : CommentLink(i) # None}

\* C7: the description's link wins over everything; failing that the
\* pinned comment's link wins over the other comments; failing that the
\* result is the link of the first of the first 50 comments that holds one;
\* and none is returned only when no source holds a link.
C7_SourcePrecedence ==
    ExtDone =>
        IF LinkIn(ext.description) # None THEN ext.result = LinkIn(ext.description)
        ELSE IF \E i \in Pinned : CommentLink(i) # None
        THEN \E i \in Pinned : ext.result = CommentLink(i)
        ELSE IF Yielding # {}
        THEN ext.result = CommentLink(CHOOSE i \in Yielding : \A j \in Yielding : i <= j)
        ELSE ext.result = None

C7_Witness ==
    /\ ExtDone
    /\ LinkIn(ext.description) = None
    /\ \E i \in Pinned : \E j \in Yielding :
           j < i /\ CommentLink(i) # None /\ CommentLink(j) # CommentLink(i)
                 /\ ext.result = CommentLink(i)

(***************************************************************************)
(* Orchestrator: main(), one step per call it makes.                       *)
(***************************************************************************)
is_weekday(day) == weekday(day) < 5

RECURSIVE previous_weekday(_)
previous_weekday(day) ==
    IF is_weekday(day - 1) THEN day - 1 ELSE previous_weekday(day - 1)

CUTOFF_HOUR == 12
CUTOFF_MINUTE == 25

\* line 190: now.hour < 12 or (now.hour == 12 and now.minute < 25)
before_cutoff(now) ==
    now.hour < CUTOFF_HOUR \/ (now.hour = CUTOFF_HOUR /\ now.minute < CUTOFF_MINUTE)

\* chosen.get('url') or f"https://www.youtube.com/watch?v={chosen.get('id')}"
video_url_of(chosen) ==
    IF chosen.url # None /\ chosen.url[1] # << >> THEN chosen.url[1]
    ELSE WATCH_URL \o <<ToString(chosen.id)>>

\* line 205
title_for(day) == <<"F","u","n"," ","H","a","l","f"," ","U+2013"," ">> \o <<iso_date(day)>>
\* line 200
title_for_previous(day) ==
    <<"F","u","n"," ","H","a","l","f"," ","U+2013"," ">> \o <<iso_date(day)>> \o <<" ","(","f","r","o","m"," ","p","r","e","v","i","o","u","s"," ","w","e","e","k","d","a","y","U+2019","s"," ","l","i","v","e",")">>

(***************************************************************************)
(* Inputs of a run: the time, the file found on disk, the listing and the  *)
(* metadata the provider returns, or its failure.                          *)
(***************************************************************************)
RunDays == {7, 13}
RunHours == {11, 12, 13}
RunMinutes == {24, 25}
RunSeconds == {17}

\* now_et(): datetime.now(ZoneInfo(TZ)) is the wall clock reading with fold 1
\* when the clock shows, for the second time, an hour it shows twice
now_et(d, h, m, s, again) ==
    [day |-> d, hour |-> h, minute |-> m, second |-> s,
     fold |-> IF d = DST_END /\ h = 1 /\ again THEN 1 ELSE 0]
RunShapes == [title : {Some(TitleLive), Some(TitleClip)}, duration : {Some(1)},
              upload_date : {Some(5), Some(8), Some(11), Some(12)}]
RunLists ==
    UNION {{[i \in 1..n |-> with_id(f[i], i)] : f \in [1..n -> RunShapes]} : n \in 0..MaxRunEntries}
RunInfos == {[description |-> d, comments |-> << >>] : d \in {TextBlank, TextA, TextB}}
RunFiles == {Absent, FreshDocument, Document(ChannelMeta, <<OldItem>>),
             Document(ChannelMeta, <<new_item(title_for(4), LinkOfA,
                                              [day |-> 4, hour |-> 13, minute |-> 0, second |-> 0,
                                               fold |-> 0])>>),
             Corrupt(2)}

InitMain ==
    /\ \E f \in RunFiles : disk = [file |-> f, backups |-> {}]
    /\ clock = 0
    /\ last = NoCall
    /\ \E d \in RunDays, h \in RunHours, m \in RunMinutes, s \in RunSeconds, again \in BOOLEAN :
           run = [pc |-> "start", now |-> now_et(d, h, m, s, again),
                  target |-> 0, found |-> None, entries |-> << >>, listings |-> 0, chosen |-> None,
                  fetched |-> << >>, first_url |-> None, url |-> None, prev |-> 0,
                  prev_chosen |-> None, title |-> << >>, call |-> None, provider_failed |-> FALSE,
                  exit |-> None]
    /\ sel = IdleSel /\ ext = IdleExt /\ procs = IdleProcs

\* An exception leaving main ends the process with a traceback and exit
\* code 1.
uncaught(r) == [r EXCEPT !.pc = "done", !.exit = Some(1)]

\* lines 178-183
MainEnsure ==
    /\ run.pc = "start"
    /\ disk' = ensure_feed_exists(disk)
    /\ run' = [run EXCEPT !.pc = "list", !.found = Some(disk'.file),
                          !.target = IF is_weekday(run.now.day) THEN run.now.day
                                     ELSE previous_weekday(run.now.day)]
    /\ UNCHANGED <<clock, last, sel, ext, procs>>

\* line 184: the provider returns a listing, or raises
MainList ==
    \E es \in RunLists, raises \in BOOLEAN :
        /\ run.pc = "list"
        /\ run' = IF raises
                     THEN uncaught([run EXCEPT !.listings = @ + 1, !.provider_failed = TRUE])
                   ELSE [run EXCEPT !.pc = "pick", !.entries = es, !.listings = @ + 1]
        /\ UNCHANGED <<disk, clock, last, sel, ext, procs>>

\* lines 185-187
MainPick ==
    LET chosen == pick_target_stream(run.entries, run.target)
    IN  /\ run.pc = "pick"
        /\ run' = IF chosen = None THEN [run EXCEPT !.pc = "done", !.exit = Some(0)]
                   ELSE [run EXCEPT !.pc = "extract", !.chosen = chosen]
        /\ UNCHANGED <<disk, clock, last, sel, ext, procs>>

\* lines 190-193 and 205, url being what line 189 returned
after_extract(r, url) ==
    IF url = None /\ before_cutoff(r.now) THEN [r EXCEPT !.pc = "done", !.exit = Some(0)]
    ELSE IF url = None THEN [r EXCEPT !.pc = "fallback"]
    ELSE [r EXCEPT !.pc = "append", !.url = url, !.first_url = url, !.title = title_for(r.target)]

\* lines 188-193 and 205: the provider returns the metadata, or raises
MainExtract ==
    \E info \in RunInfos, raises \in BOOLEAN :
        LET fetched == [run EXCEPT !.fetched = Append(@, video_url_of(run.chosen[1]))]
        IN  /\ run.pc = "extract"
            /\ run' = IF raises THEN uncaught([fetched EXCEPT !.provider_failed = TRUE])
                       ELSE after_extract(fetched, find_funhalf_url_for_video(info))
            /\ UNCHANGED <<disk, clock, last, sel, ext, procs>>

\* lines 194-196, 204
MainFallbackPick ==
    LET prev == previous_weekday(run.target)
        prev_chosen == pick_target_stream(run.entries, prev)
    IN  /\ run.pc = "fallback"
        /\ run' = IF prev_chosen = None
                     THEN [run EXCEPT !.pc = "done", !.prev = prev, !.exit = Some(0)]
                   ELSE [run EXCEPT !.pc = "fallback_extract", !.prev = prev,
                                    !.prev_chosen = prev_chosen]
        /\ UNCHANGED <<disk, clock, last, sel, ext, procs>>

\* lines 199-200 and 204, url being what line 198 returned
after_fallback_extract(r, url) ==
    IF url = None THEN [r EXCEPT !.pc = "done", !.exit = Some(0)]
    ELSE [r EXCEPT !.pc = "append", !.url = url, !.title = title_for_previous(r.prev)]

\* lines 197-200, 204: the provider returns the metadata, or raises
MainFallbackExtract ==
    \E info \in RunInfos, raises \in BOOLEAN :
        LET fetched == [run EXCEPT !.fetched = Append(@, video_url_of(run.prev_chosen[1]))]
        IN  /\ run.pc = "fallback_extract"
            /\ run' = IF raises THEN uncaught([fetched EXCEPT !.provider_failed = TRUE])
                       ELSE after_fallback_extract(fetched, find_funhalf_url_for_video(info))
            /\ UNCHANGED <<disk, clock, last, sel, ext, procs>>

\* lines 201-203 and 206-208
MainAppend ==
    LET r == append_item_to_feed(disk, clock, run.title, run.url[1], run.now)
        called == [run EXCEPT !.call = Some([title |-> run.title, link |-> run.url[1],
                                             pub |-> run.now])]
    IN  /\ run.pc = "append"
        /\ disk' = r.disk
        /\ run' = IF r.raised THEN uncaught(called)
                   ELSE [called EXCEPT !.pc = "done", !.exit = Some(0)]
        /\ UNCHANGED <<clock, last, sel, ext, procs>>

NextMain ==
    \/ MainEnsure \/ MainList \/ MainPick \/ MainExtract
    \/ MainFallbackPick \/ MainFallbackExtract \/ MainAppend \/ Tick

SpecMain == InitMain /\ [][NextMain]_vars

(***************************************************************************)
(* Orchestrator claim, checked under SpecMain.                             *)
(***************************************************************************)
RunDone == run.pc = "done"
\* a stream was selected for the target date, extraction on it returned
\* none, and the provider answered every later call of the run
TargetStreamGaveNone ==
    /\ run.chosen # None /\ Len(run.fetched) >= 1 /\ run.first_url = None
    /\ ~run.provider_failed
MinutesOfDay(now) == now.hour * 60 + now.minute
EarlyRun == MinutesOfDay(run.now) < 12 * 60 + 25
\* the business date immediately before day
BusinessDateBefore(day) ==
    CHOOSE p \in (day - 7)..(day - 1) :
        weekday(p) \in 0..4 /\ \A q \in (p + 1)..(day - 1) : weekday(q) \in {5, 6}

\* C8: in a run where the target stream yields no link: before 12:25 the
\* document is left unchanged and no other stream is tried; from 12:25 on a
\* stream is re-selected for the business date before the target from the
\* one listing already fetched, and append is called, with that date in
\* the title and the current time, exactly when such a stream is found and
\* yields a link; in both cases exit code 0 and at most one item added.
C8_FallbackOutcome ==
    (RunDone /\ TargetStreamGaveNone) =>
        /\ run.exit = Some(0)
        /\ Len(disk.file.items) <= Len(run.found[1].items) + 1
        /\ run.listings = 1
        /\ IF EarlyRun
           THEN /\ disk.file = run.found[1]
                /\ Len(run.fetched) = 1
                /\ run.call = None
           ELSE LET prev == BusinessDateBefore(run.target)
                    again == pick_target_stream(run.entries, prev)
                IN  /\ run.prev = prev
                    /\ run.prev_chosen = again
                    /\ Len(run.fetched) = (IF again = None THEN 1 ELSE 2)
                    /\ again # None => run.fetched[2] = video_url_of(again[1])
                    /\ (run.call # None) <=> (again # None /\ run.url # None)
                    /\ run.call # None =>
                           run.call[1] = [title |-> <<"F","u","n"," ","H","a","l","f"," ","U+2013"," ">> \o <<iso_date(prev)>>
                                                        \o <<" ","(","f","r","o","m"," ","p","r","e","v","i","o","u","s"," ","w","e","e","k","d","a","y","U+2019","s"," ","l","i","v","e",")">>,
                                          link |-> run.url[1], pub |-> run.now]

====
